---------------------------- MODULE Spec2Model ----------------------------
(***************************************************************************)
(* A model of one collection run of the PostgreSQL metrics collector:      *)
(* PopulateMetrics and the six domain collectors it sequences (instance,   *)
(* database, lock, table, index, pgbouncer), with the connections they     *)
(* open and release, the queries they issue, and the entities and metric   *)
(* samples they create.  The server, the connection package and the        *)
(* integration SDK are the environment: every connection-open, query,      *)
(* row, identity-lookup, entity-creation and field-copy outcome is chosen  *)
(* nondeterministically.                                                   *)
(***************************************************************************)
EXTENDS Naturals, Integers, Sequences, FiniteSets, Bags, TLC

(***************************************************************************)
(* Bounds of the model.                                                    *)
(***************************************************************************)
\* the largest number of rows one query result holds, and the server returns
\* over a whole run
MaxRows == 1
\* the largest number of failures (of a connection, a query, an entity
\* creation or a field copy) the environment inflicts on one run
MaxFaults == 1
\* the largest number of tokens of a version string the version resolver is
\* tried on
MaxVersionTokens == 3

\* names the topology draws its databases and schemas from
DatabaseNames == {"d1", "d2"}
SchemaLists == { <<>>, <<"s1">>, <<"s1", "s2">> }
RowDatabaseNames == {"d1"}
TableNames == {"t1"}
IndexNames == {"i1"}

(***************************************************************************)
(* Strings.  A server version string is a sequence of tokens; the tokens   *)
(* are the pieces collectVersion tells apart: a numeric core, the opening  *)
(* of a parenthetical " (", a vendor marker, and the rest.                 *)
(***************************************************************************)
VersionStrings ==
    { <<"9.6">>, <<"10.4">>,
      <<"9.6", " (", "Ubuntu", " 9.6-1)">>,
      <<"10.4", " (", "Debian", " 10.4-2)">>,
      <<"9.6", " ", "Ubuntu">>,
      <<"junk">> }

\* strings.Contains(s, tok) for a one-token needle
Contains(s, tok) == \E i \in 1..Len(s) : s[i] = tok

\* strings.Index(s, pat): the 0-based place of the first occurrence of pat, or -1
Index(s, pat) ==
    LET hits == { i \in 0..(Len(s) - Len(pat)) :
                    \A j \in 1..Len(pat) : s[i + j] = pat[j] }
    IN  IF hits = {} THEN -1
        ELSE CHOOSE i \in hits : \A k \in hits : i <= k

\* results of a call that returns (value, error) or panics
Ok(v) == [kind |-> "ok", v |-> v]
Err == [kind |-> "err", v |-> 0]
Panic == [kind |-> "panic", v |-> 0]

\* semver.ParseTolerant on a token string: a lone numeric core parses (a
\* missing patch component is tolerated), anything else is an error.  The
\* version is kept as its major number.
ParseTolerant(s) ==
    IF s = <<"9.6">> THEN Ok(9)
    ELSE IF s = <<"10.4">> THEN Ok(10)
    ELSE Err

\* parseSpecialVersion: version[:specialIndex], which panics on a negative index
parseSpecialVersion(vstr, specialIndex) ==
    IF specialIndex < 0 \/ specialIndex > Len(vstr) THEN Panic
    ELSE ParseTolerant(SubSeq(vstr, 1, specialIndex))

\* the outcomes of the version query: an error, or a row list
VersionQueryResults ==
    { [err |-> TRUE, rows |-> <<>>], [err |-> FALSE, rows |-> <<>>] }
    \cup { [err |-> FALSE, rows |-> <<s>>] : s \in VersionStrings }

\* collectVersion on one outcome of connection.Query(&versionRows, versionQuery)
collectVersion(qr) ==
    IF qr.err THEN Err
    ELSE IF Len(qr.rows) = 0 THEN Panic    \* versionRows[0]: index out of range
    ELSE LET vstr == qr.rows[1]
         IN  IF Contains(vstr, "Ubuntu")
               THEN parseSpecialVersion(vstr, Index(vstr, <<" (", "Ubuntu">>))
             ELSE IF Contains(vstr, "Debian")
               THEN parseSpecialVersion(vstr, Index(vstr, <<" (", "Debian">>))
             ELSE ParseTolerant(vstr)

\* the version before it is resolved
NoVersion == 0

\* the tokens version strings are made of when the resolver is tried on its
\* own, and the strings of at most n tokens
VersionTokens == {"9.6", "10.4", " (", "Ubuntu", "Debian", "junk"}
TokenStrings(n) == UNION { [1..k -> VersionTokens] : k \in 1..n }
\* the outcomes of the version query the resolver is tried on
VersionInputs ==
    VersionQueryResults
    \cup { [err |-> FALSE, rows |-> <<s>>] : s \in TokenStrings(MaxVersionTokens) }


(***************************************************************************)
(* The query definition catalogue.  A definition carries a name and a      *)
(* version range [min, max); hasMax says whether the range is bounded      *)
(* above.  The table and index generators take the schema list only and    *)
(* expand one definition per schema.                                       *)
(***************************************************************************)
Def(name, min, hasMax, max) ==
    [name |-> name, schema |-> "-", min |-> min, hasMax |-> hasMax, max |-> max]

InstanceCatalog == << Def("instance_all", 0, FALSE, 0),
                      Def("instance_96", 9, TRUE, 10),
                      Def("instance_10", 10, FALSE, 0) >>
DatabaseCatalog == << Def("database_all", 0, FALSE, 0),
                      Def("database_96", 9, TRUE, 10) >>
LockCatalog == << Def("lock_all", 0, FALSE, 0),
                  Def("lock_10", 10, FALSE, 0) >>
TableCatalog == << Def("table_all", 0, FALSE, 0) >>
IndexCatalog == << Def("index_pre10", 0, TRUE, 10) >>
PgBouncerCatalog == << Def("pgbouncer_stats", 0, FALSE, 0),
                       Def("pgbouncer_pools", 0, FALSE, 0) >>

\* a definition is eligible iff the version lies in [min, max)
Eligible(def, v) == def.min <= v /\ (def.hasMax => v < def.max)

FilterByVersion(catalog, v) == SelectSeq(catalog, LAMBDA def : Eligible(def, v))

RECURSIVE ExpandPerSchema(_, _)
ExpandPerSchema(catalog, schemaList) ==
    IF schemaList = <<>> THEN <<>>
    ELSE [ i \in 1..Len(catalog) |-> [catalog[i] EXCEPT !.schema = Head(schemaList)] ]
         \o ExpandPerSchema(catalog, Tail(schemaList))

generateInstanceDefinitions(v) == FilterByVersion(InstanceCatalog, v)
generateDatabaseDefinitions(databases, v) == FilterByVersion(DatabaseCatalog, v)
generateLockDefinitions(databases, v) == FilterByVersion(LockCatalog, v)
generateTableDefinitions(schemaList) == ExpandPerSchema(TableCatalog, schemaList)
generateIndexDefinitions(schemaList) == ExpandPerSchema(IndexCatalog, schemaList)
generatePgBouncerDefinitions == PgBouncerCatalog

(***************************************************************************)
(* Connections.  A handle names the database it was opened for and the     *)
(* domain that opened it.  A failed NewConnection returns no usable        *)
(* handle: either a nil pointer, on which Close panics, or a handle whose  *)
(* Close does nothing.                                                     *)
(***************************************************************************)
PrimaryCon == <<"primary", "-">>
PgBouncerCon == <<"pgbouncer", "pgbouncer">>
TableCon(d) == <<"table", d>>
IndexCon(d) == <<"index", d>>
NilCon == <<"nil", "-">>
BadCon == <<"bad", "-">>
NoCon == <<"none", "-">>
FailedHandles == {NilCon, BadCon}
AllCons == {PrimaryCon, PgBouncerCon}
           \cup { TableCon(d) : d \in DatabaseNames }
           \cup { IndexCon(d) : d \in DatabaseNames }

\* the keys queries are counted under: the connection and the domain
QueryKeys == { <<"version", "-">>, <<"instance", "-">>, <<"database", "-">>,
               <<"lock", "-">>, <<"pgbouncer", "-">> }
             \cup { <<"table", d>> : d \in DatabaseNames }
             \cup { <<"index", d>> : d \in DatabaseNames }

(***************************************************************************)
(* Records, entities and samples.  A decoded row holds the identity fields *)
(* of its domain; Absent marks a field the row does not have.              *)
(***************************************************************************)
Absent == "<absent>"
NA == "-"
Row(database, schema, table, index) ==
    [database |-> database, schema |-> schema, table |-> table, index |-> index]

\* GetDatabaseName, GetSchemaName, GetTableName, GetIndexName: the field, or
\* an error with the empty string in its place
GetName(row, field) ==
    IF row[field] = Absent THEN [name |-> "", err |-> TRUE]
    ELSE [name |-> row[field], err |-> FALSE]
GetDatabaseName(row) == GetName(row, "database")
GetSchemaName(row) == GetName(row, "schema")
GetTableName(row) == GetName(row, "table")
GetIndexName(row) == GetName(row, "index")

\* the rows a query of each domain can return: the complete row, and rows
\* that lack identity fields
DatabaseRows ==
    { Row(d, NA, NA, NA) : d \in RowDatabaseNames \cup {Absent} }
TableRows(d, schema) ==
    { Row(d, schema, tn, NA) : tn \in TableNames \cup {Absent} }
    \cup { Row(Absent, Absent, tn, NA) : tn \in TableNames }
IndexRows(d, schema) ==
    { Row(d, schema, tn, idx) : tn \in TableNames, idx \in IndexNames \cup {Absent} }
    \cup { Row(d, schema, Absent, idx) : idx \in IndexNames }

\* an entity: its type, its name and the identifying attributes after host and port
Entity(name, type, database, schema, table) ==
    [type |-> type, name |-> name, database |-> database, schema |-> schema,
     table |-> table]
InstanceEntity == Entity("instance", "pg-instance", NA, NA, NA)

\* the outcomes of pgIntegration.Entity: the entity, or an error with a nil
\* entity
EntityOutcomes == {"ok", "nil"}


(***************************************************************************)
(* The state of a run.                                                     *)
(***************************************************************************)
VARIABLES
    databaseList,      \* the topology: database name -> schema list
    versionAnswer,     \* <<qr>> when the outcome qr of the version query is
                       \* fixed in advance, <<>> when the server chooses it
                       \* at the query
    collectPgBouncer,  \* flag: collect pooling-proxy metrics
    collectDbLocks,    \* flag: collect lock metrics
    pc,                \* the place of the run in PopulateMetrics and its callees
    panicking,         \* a panic is unwinding the stack (or ended the run)
    version,           \* the resolved version, NoVersion before
    openCons,          \* the connections open now
    openCount,         \* handle -> number of successful opens
    closeCount,        \* handle -> number of Close calls that ran on it
    mainDefers,        \* deferred Close calls of PopulateMetrics, last first
    domDefers,         \* deferred Close calls of PopulateTableMetrics or
                       \* PopulateIndexMetrics, last first
    todo,              \* databases the current range loop has not reached
    con,               \* the connection the current domain queries
    defs,              \* the definitions the current loop has not finished
    rowsLeft,          \* rows of the current result not yet processed
    issued,            \* query key -> number of queries issued
    entities,          \* the entities the integration holds
    samples,           \* bag of <<entity, sample name>>: the metric sets
    logged,            \* the messages the last step logged
    failed,            \* the kinds of failure met since the current domain began
    attempted,         \* the domains entered so far
    rowBudget,         \* rows the server may still return in this run
    faults             \* failures the environment may still inflict

inputs == <<databaseList, versionAnswer, collectPgBouncer, collectDbLocks>>
conns == <<openCons, openCount, closeCount, mainDefers, domDefers>>
data == <<entities, samples>>
loop == <<todo, con, defs, rowsLeft>>
vars == <<inputs, pc, panicking, version, conns, loop, issued, data, logged,
          failed, attempted, rowBudget, faults>>

\* the topologies: no database, one or two, each with one of the schema lists
Topologies == UNION { [dbs -> SchemaLists] : dbs \in {{}, {"d1"}, DatabaseNames} }

\* the state PopulateMetrics starts in, whatever its arguments
InitRun ==
    /\ pc = "open_primary"
    /\ panicking = FALSE
    /\ version = NoVersion
    /\ openCons = {}
    /\ openCount = [h \in AllCons |-> 0]
    /\ closeCount = [h \in AllCons |-> 0]
    /\ mainDefers = <<>>
    /\ domDefers = <<>>
    /\ todo = {}
    /\ con = NoCon
    /\ defs = <<>>
    /\ rowsLeft = 0
    /\ issued = [k \in QueryKeys |-> 0]
    /\ entities = {InstanceEntity}
    /\ samples = EmptyBag
    /\ logged = {}
    /\ failed = {}
    /\ attempted = {}
    /\ rowBudget = MaxRows
    /\ faults = MaxFaults

Init ==
    /\ databaseList \in Topologies
    /\ versionAnswer = <<>>
    /\ collectPgBouncer \in BOOLEAN
    /\ collectDbLocks \in BOOLEAN
    /\ InitRun

\* a run that tries the version resolver on one outcome of the version query
InitVersion ==
    /\ databaseList \in [{} -> SchemaLists]
    /\ versionAnswer \in { <<qr>> : qr \in VersionInputs }
    /\ collectPgBouncer = FALSE
    /\ collectDbLocks = FALSE
    /\ InitRun

(***************************************************************************)
(* What the code does at each of its error checks.                         *)
(***************************************************************************)
\* PopulateMetrics: the primary connection cannot be opened
OnPrimaryOpenError == "return"
\* PopulateMetrics: collectVersion returns an error
\* (mutant: the error is logged and the run goes on)
OnVersionErrorIgnored == "continue"
OnVersionError == "return"
\* PopulateMetrics: the pgbouncer connection cannot be opened
\* (mutant: PopulatePgBouncerMetrics runs all the same)
OnPgBouncerOpenErrorRun == "run"
OnPgBouncerOpenError == "skip"
\* PopulateInstanceMetrics: the definitions the loop ranges over
\* (mutant: the whole catalogue, whatever the version)
InstanceDefinitionsUngated(v) == InstanceCatalog
InstanceDefinitionsFor(v) == generateInstanceDefinitions(v)
\* PopulateDatabaseLockMetrics: is lock collection skipped
\* (mutant: the extension is not looked at)
SkipLocksNever(haveExtension) == FALSE
SkipLocks(haveExtension) == ~haveExtension
\* PopulateTableMetrics: a database with an empty schema list
OnEmptySchemaList == "return"
\* PopulateTableMetrics, PopulateIndexMetrics: NewConnection fails
OnTableOpenError == "continue"
OnIndexOpenError == "continue"
\* a query of a definition fails
OnInstanceQueryError == "continue"
OnDatabaseQueryError == "continue"
OnTableQueryError == "return"
OnIndexQueryError == "return"
OnPgBouncerQueryError == "return"
\* PopulatePgBouncerMetrics: the row has no database name
OnPgBouncerNameError == "continue"

(***************************************************************************)
(* Helpers of the actions.                                                 *)
(***************************************************************************)
Opened(h) ==
    /\ openCons' = openCons \cup {h}
    /\ openCount' = [openCount EXCEPT ![h] = @ + 1]
    /\ UNCHANGED closeCount

\* defer h.Close(): the call goes on the stack of deferred calls of the frame
\* (mutant: the close is never scheduled)
DeferDropped(h, stack) == stack
Defer(h, stack) == <<h>> \o stack

\* the environment makes a call fail, or lets it succeed
Fault == faults > 0 /\ faults' = faults - 1
NoFault == UNCHANGED faults

Issue(key) == issued' = [issued EXCEPT ![key] = @ + 1]

\* the row counts a query may return now
RowCounts == 0..rowBudget

\* the place a panic takes the run to: the deferred calls of the frame run
Panics(retPc) ==
    /\ panicking' = TRUE
    /\ pc' = retPc

\* one iteration of a row loop ends: the next row, or the next definition
NextRow(defsPc) ==
    /\ rowsLeft' = rowsLeft - 1
    /\ IF rowsLeft = 1
         THEN defs' = Tail(defs) /\ pc' = defsPc
         ELSE UNCHANGED <<defs, pc>>

\* entity resolution, NewMetricSet and MarshalMetrics for one row: e is the
\* entity the identity resolves to, msgs what the identity lookups logged
AttachRow(e, sampleName, msgs, entityMsg, marshalMsg, defsPc, panicPc) ==
    \E outcome \in EntityOutcomes, marshalOk \in BOOLEAN :
        IF outcome = "nil"
          THEN \* e.Metadata on a nil entity
               /\ Fault
               /\ Panics(panicPc)
               /\ logged' = msgs \cup {entityMsg}
               /\ UNCHANGED <<data, defs, rowsLeft>>
          ELSE /\ entities' = entities \cup {e}
               /\ samples' = samples (+) SetToBag({<<e, sampleName>>})
               /\ logged' = msgs \cup (IF marshalOk THEN {} ELSE {marshalMsg})
               /\ IF marshalOk THEN NoFault ELSE Fault
               /\ NextRow(defsPc)
               /\ UNCHANGED panicking


(***************************************************************************)
(* PopulateMetrics: the primary connection and the version.                *)
(***************************************************************************)
OpenPrimary ==
    /\ pc = "open_primary"
    /\ \E ok \in BOOLEAN :
         IF ok
           THEN /\ Opened(PrimaryCon)
                /\ mainDefers' = Defer(PrimaryCon, mainDefers)
                /\ con' = PrimaryCon
                /\ pc' = "collect_version"
                /\ logged' = {}
                /\ NoFault
                /\ UNCHANGED failed
           ELSE /\ logged' = {"Metrics collection failed: error creating connection"}
                /\ Fault
                /\ failed' = failed \cup {"primary"}
                /\ pc' = IF OnPrimaryOpenError = "return" THEN "main_ret"
                         ELSE "collect_version"
                /\ UNCHANGED <<openCons, openCount, closeCount, mainDefers, con>>
    /\ UNCHANGED <<inputs, panicking, version, domDefers, todo, defs, rowsLeft,
                   issued, data, attempted, rowBudget>>

\* the outcomes connection.Query(&versionRows, versionQuery) can have now
VersionAnswers ==
    IF versionAnswer = <<>> THEN VersionQueryResults ELSE {versionAnswer[1]}

CollectVersion ==
    /\ pc = "collect_version"
    /\ Issue(<<"version", "-">>)
    /\ \E qr \in VersionAnswers :
         LET r == collectVersion(qr)
         IN  CASE r.kind = "ok" ->
                    /\ version' = r.v
                    /\ pc' = "instance"
                    /\ logged' = {}
                    /\ NoFault
                    /\ UNCHANGED <<panicking, failed>>
               [] r.kind = "err" ->
                    /\ logged' = {"Metrics collection failed: error collecting version number"}
                    /\ failed' = failed \cup {"version"}
                    /\ Fault
                    /\ pc' = IF OnVersionError = "return" THEN "main_ret"
                             ELSE "instance"
                    /\ UNCHANGED <<panicking, version>>
               [] r.kind = "panic" ->
                    /\ Panics("main_ret")
                    /\ Fault
                    /\ failed' = failed \cup {"version"}
                    /\ logged' = {}
                    /\ UNCHANGED version
    /\ UNCHANGED <<inputs, conns, loop, data, attempted, rowBudget>>

(***************************************************************************)
(* PopulateInstanceMetrics.                                                *)
(***************************************************************************)
PopulateInstanceMetrics ==
    /\ pc = "instance"
    /\ samples' = samples (+) SetToBag({<<InstanceEntity, "PostgresqlInstanceSample">>})
    /\ defs' = InstanceDefinitionsFor(version)
    /\ attempted' = attempted \cup {"instance"}
    /\ pc' = "instance_defs"
    /\ logged' = {}
    /\ failed' = {}
    /\ UNCHANGED <<inputs, panicking, version, conns, todo, con, rowsLeft, issued,
                   entities, rowBudget, faults>>

\* one iteration of the loop over the instance definitions
InstanceQuery ==
    /\ pc = "instance_defs"
    /\ defs /= <<>>
    /\ Issue(<<"instance", "-">>)
    /\ \/ /\ logged' = {"Could not execute instance query"}
          /\ failed' = failed \cup {"instancequery"}
          /\ IF OnInstanceQueryError = "continue"
               THEN defs' = Tail(defs) /\ pc' = pc
               ELSE defs' = <<>> /\ pc' = pc
          /\ UNCHANGED rowBudget
          /\ Fault
       \/ \E n \in RowCounts, marshalOk \in BOOLEAN :
            /\ rowBudget' = rowBudget - n
            /\ IF n > 0 /\ ~marshalOk THEN Fault ELSE NoFault
            /\ logged' = IF n = 0 THEN {"No data returned from instance query"}
                         ELSE IF marshalOk THEN {}
                         ELSE {"Could not parse metrics from instance query result"}
            /\ defs' = Tail(defs)
            /\ UNCHANGED <<pc, failed>>
    /\ UNCHANGED <<inputs, panicking, version, conns, todo, con, rowsLeft, data,
                   attempted>>

InstanceDone ==
    /\ pc = "instance_defs"
    /\ defs = <<>>
    /\ pc' = "database"
    /\ logged' = {}
    /\ UNCHANGED <<inputs, panicking, version, conns, loop, issued, data, failed,
                   attempted, rowBudget, faults>>

(***************************************************************************)
(* PopulateDatabaseMetrics, PopulateDatabaseLockMetrics and                *)
(* processDatabaseDefinitions, which both run.                             *)
(***************************************************************************)
PopulateDatabaseMetrics ==
    /\ pc = "database"
    /\ defs' = generateDatabaseDefinitions(databaseList, version)
    /\ attempted' = attempted \cup {"database"}
    /\ pc' = "database_defs"
    /\ logged' = {}
    /\ failed' = {}
    /\ UNCHANGED <<inputs, panicking, version, conns, todo, con, rowsLeft, issued,
                   data, rowBudget, faults>>

PopulateDatabaseLockMetrics ==
    /\ pc = "lock"
    /\ attempted' = attempted \cup {"lock"}
    /\ \E haveExtension \in BOOLEAN :
         /\ failed' = IF haveExtension THEN {} ELSE {"noextension"}
         /\ IF SkipLocks(haveExtension)
              THEN /\ logged' = {"Crosstab function not available; database lock metric gathering not possible."}
                   /\ pc' = "table"
                   /\ UNCHANGED defs
              ELSE /\ defs' = generateLockDefinitions(databaseList, version)
                   /\ pc' = "lock_defs"
                   /\ logged' = {}
    /\ UNCHANGED <<inputs, panicking, version, conns, todo, con, rowsLeft, issued,
                   data, rowBudget, faults>>

\* one query of processDatabaseDefinitions, for dom = "database" or "lock"
DatabaseQuery(dom) ==
    /\ pc = dom \o "_defs"
    /\ defs /= <<>>
    /\ Issue(<<dom, "-">>)
    /\ \/ /\ logged' = {"Could not execute database query"}
          /\ failed' = failed \cup {dom \o "query"}
          /\ IF OnDatabaseQueryError = "continue"
               THEN defs' = Tail(defs)
               ELSE defs' = <<>>
          /\ UNCHANGED <<pc, rowsLeft, rowBudget>>
          /\ Fault
       \/ \E n \in RowCounts :
            /\ rowBudget' = rowBudget - n
            /\ NoFault
            /\ rowsLeft' = n
            /\ IF n = 0 THEN defs' = Tail(defs) /\ pc' = pc
                        ELSE defs' = defs /\ pc' = dom \o "_rows"
            /\ logged' = {}
            /\ UNCHANGED failed
    /\ UNCHANGED <<inputs, panicking, version, conns, todo, con, data, attempted>>

\* one row of processDatabaseDefinitions
DatabaseRow(dom) ==
    /\ pc = dom \o "_rows"
    /\ \E row \in DatabaseRows :
         LET name == GetDatabaseName(row)
         IN  AttachRow(Entity(name.name, "pg-database", NA, NA, NA),
                       "PostgresqlDatabaseSample",
                       IF name.err THEN {"Unable to get database name"} ELSE {},
                       "Failed to get database entity",
                       "Failed to database entity with metrics",
                       dom \o "_defs", "main_ret")
    /\ UNCHANGED <<inputs, version, conns, todo, con, issued, failed, attempted,
                   rowBudget>>

\* processDatabaseDefinitions returns; PopulateMetrics goes on
DatabaseDone(dom) ==
    /\ pc = dom \o "_defs"
    /\ defs = <<>>
    /\ pc' = IF dom = "database" /\ collectDbLocks THEN "lock" ELSE "table"
    /\ logged' = {}
    /\ UNCHANGED <<inputs, panicking, version, conns, loop, issued, data, failed,
                   attempted, rowBudget, faults>>


(***************************************************************************)
(* PopulateTableMetrics and populateTableMetricsForDatabase.               *)
(***************************************************************************)
PopulateTableMetrics ==
    /\ pc = "table"
    /\ todo' = DOMAIN databaseList
    /\ domDefers' = <<>>
    /\ attempted' = attempted \cup {"table"}
    /\ pc' = "table_loop"
    /\ logged' = {}
    /\ failed' = {}
    /\ UNCHANGED <<inputs, panicking, version, openCons, openCount, closeCount,
                   mainDefers, con, defs, rowsLeft, issued, data, rowBudget, faults>>

\* the range loop is over: the function returns
TableLoopEnd ==
    /\ pc = "table_loop"
    /\ todo = {}
    /\ pc' = "table_ret"
    /\ logged' = {}
    /\ UNCHANGED <<inputs, panicking, version, conns, loop, issued, data, failed,
                   attempted, rowBudget, faults>>

\* one iteration of the range loop, up to the call of
\* populateTableMetricsForDatabase; the map is ranged over in any order
TableNextDatabase ==
    /\ pc = "table_loop"
    /\ \E d \in todo :
         /\ todo' = todo \ {d}
         /\ IF Len(databaseList[d]) = 0
              THEN /\ pc' = IF OnEmptySchemaList = "return" THEN "table_ret"
                            ELSE "table_loop"
                   /\ logged' = {}
                   /\ NoFault
                   /\ UNCHANGED <<panicking, conns, con, defs, failed>>
              ELSE \E h \in {TableCon(d)} \cup FailedHandles, byValue \in BOOLEAN :
                     IF h = TableCon(d)
                       THEN /\ Opened(h)
                            /\ domDefers' = Defer(h, domDefers)
                            /\ con' = h
                            /\ defs' = generateTableDefinitions(databaseList[d])
                            /\ pc' = "table_defs"
                            /\ logged' = {}
                            /\ NoFault
                            /\ UNCHANGED <<panicking, mainDefers, failed>>
                       ELSE \* defer con.Close() comes before the error check
                            /\ Fault
                            /\ con' = h
                            /\ failed' = failed \cup {"tableopen"}
                            /\ IF h = NilCon /\ byValue
                                 THEN \* a value receiver: the nil handle is
                                      \* dereferenced by the defer statement
                                      /\ Panics("table_ret")
                                      /\ logged' = {}
                                      /\ UNCHANGED domDefers
                                 ELSE /\ domDefers' = Defer(h, domDefers)
                                      /\ logged' = {"Failed to connect to database"}
                                      /\ pc' = IF OnTableOpenError = "continue"
                                                 THEN "table_loop" ELSE "table_ret"
                                      /\ UNCHANGED panicking
                            /\ UNCHANGED <<openCons, openCount, closeCount,
                                           mainDefers, defs>>
    /\ UNCHANGED <<inputs, version, rowsLeft, issued, data, attempted, rowBudget>>

\* one query of populateTableMetricsForDatabase
TableQuery ==
    /\ pc = "table_defs"
    /\ defs /= <<>>
    /\ Issue(<<"table", con[2]>>)
    /\ \/ /\ logged' = {"Could not execute table query"}
          /\ failed' = failed \cup {"tablequery"}
          /\ IF OnTableQueryError = "return"
               THEN defs' = <<>> /\ pc' = "table_loop"
               ELSE defs' = Tail(defs) /\ pc' = pc
          /\ UNCHANGED <<rowsLeft, rowBudget>>
          /\ Fault
       \/ \E n \in RowCounts :
            /\ rowBudget' = rowBudget - n
            /\ NoFault
            /\ rowsLeft' = n
            /\ IF n = 0 THEN defs' = Tail(defs) /\ pc' = pc
                        ELSE defs' = defs /\ pc' = "table_rows"
            /\ logged' = {}
            /\ UNCHANGED failed
    /\ UNCHANGED <<inputs, panicking, version, conns, todo, con, data, attempted>>

\* one row of a table query
TableRow ==
    /\ pc = "table_rows"
    /\ \E row \in TableRows(con[2], Head(defs).schema) :
         LET dbName == GetDatabaseName(row)
             schemaName == GetSchemaName(row)
             tableName == GetTableName(row)
         IN  AttachRow(Entity(tableName.name, "pg-table", dbName.name,
                              schemaName.name, NA),
                       "PostgresqlTableSample",
                       (IF dbName.err THEN {"Unable to get database name"} ELSE {})
                       \cup (IF schemaName.err THEN {"Unable to get schema name"} ELSE {})
                       \cup (IF tableName.err THEN {"Unable to get table name"} ELSE {}),
                       "Failed to get table entity",
                       "Failed to populate table entity with metrics",
                       "table_defs", "table_ret")
    /\ UNCHANGED <<inputs, version, conns, todo, con, issued, failed, attempted,
                   rowBudget>>

\* (mutant: PopulateTableMetrics returns after the first database it collected)
TableDatabaseDoneReturns ==
    /\ pc = "table_defs"
    /\ defs = <<>>
    /\ pc' = "table_ret"
    /\ logged' = {}
    /\ UNCHANGED <<inputs, panicking, version, conns, loop, issued, data, failed,
                   attempted, rowBudget, faults>>

\* populateTableMetricsForDatabase returns: the next iteration of the range loop
TableDatabaseDone ==
    /\ pc = "table_defs"
    /\ defs = <<>>
    /\ pc' = "table_loop"
    /\ logged' = {}
    /\ UNCHANGED <<inputs, panicking, version, conns, loop, issued, data, failed,
                   attempted, rowBudget, faults>>

(***************************************************************************)
(* Deferred calls.  The Close calls a function deferred run when it        *)
(* returns or panics, last first; Close on a nil handle panics, and the    *)
(* calls deferred before it still run.                                     *)
(***************************************************************************)
RunClose(h) ==
    /\ panicking' = (panicking \/ h = NilCon)
    /\ IF h \in AllCons
         THEN /\ openCons' = openCons \ {h}
              /\ closeCount' = [closeCount EXCEPT ![h] = @ + 1]
         ELSE UNCHANGED <<openCons, closeCount>>
    /\ UNCHANGED openCount

\* PopulateTableMetrics or PopulateIndexMetrics returns (frame is "table" or
\* "index"): one deferred Close, or the return to PopulateMetrics
DomainDeferred(frame) ==
    /\ pc = frame \o "_ret"
    /\ domDefers /= <<>>
    /\ RunClose(Head(domDefers))
    /\ domDefers' = Tail(domDefers)
    /\ logged' = {}
    /\ UNCHANGED <<inputs, pc, version, mainDefers, loop, issued, data, failed,
                   attempted, rowBudget, faults>>

DomainReturn(frame) ==
    /\ pc = frame \o "_ret"
    /\ domDefers = <<>>
    /\ pc' = IF panicking THEN "main_ret"
             ELSE IF frame = "table" THEN "index" ELSE "pgbouncer"
    /\ logged' = {}
    /\ UNCHANGED <<inputs, panicking, version, conns, loop, issued, data, failed,
                   attempted, rowBudget, faults>>

\* PopulateMetrics returns or panics: its deferred Close calls
MainDeferred ==
    /\ pc = "main_ret"
    /\ mainDefers /= <<>>
    /\ RunClose(Head(mainDefers))
    /\ mainDefers' = Tail(mainDefers)
    /\ logged' = {}
    /\ UNCHANGED <<inputs, pc, version, domDefers, loop, issued, data, failed,
                   attempted, rowBudget, faults>>

MainReturn ==
    /\ pc = "main_ret"
    /\ mainDefers = <<>>
    /\ pc' = "done"
    /\ logged' = {}
    /\ UNCHANGED <<inputs, panicking, version, conns, loop, issued, data, failed,
                   attempted, rowBudget, faults>>


(***************************************************************************)
(* PopulateIndexMetrics and populateIndexMetricsForDatabase.               *)
(***************************************************************************)
PopulateIndexMetrics ==
    /\ pc = "index"
    /\ todo' = DOMAIN databaseList
    /\ domDefers' = <<>>
    /\ attempted' = attempted \cup {"index"}
    /\ pc' = "index_loop"
    /\ logged' = {}
    /\ failed' = {}
    /\ UNCHANGED <<inputs, panicking, version, openCons, openCount, closeCount,
                   mainDefers, con, defs, rowsLeft, issued, data, rowBudget, faults>>

IndexLoopEnd ==
    /\ pc = "index_loop"
    /\ todo = {}
    /\ pc' = "index_ret"
    /\ logged' = {}
    /\ UNCHANGED <<inputs, panicking, version, conns, loop, issued, data, failed,
                   attempted, rowBudget, faults>>

\* one iteration of the range loop, up to the call of
\* populateIndexMetricsForDatabase
IndexNextDatabase ==
    /\ pc = "index_loop"
    /\ \E d \in todo :
         /\ todo' = todo \ {d}
         /\ \E h \in {IndexCon(d)} \cup FailedHandles :
              IF h = IndexCon(d)
                THEN /\ Opened(h)
                     /\ domDefers' = Defer(h, domDefers)
                     /\ con' = h
                     /\ defs' = generateIndexDefinitions(databaseList[d])
                     /\ pc' = "index_defs"
                     /\ logged' = {}
                     /\ NoFault
                     /\ UNCHANGED <<mainDefers, failed>>
                ELSE /\ Fault
                     /\ con' = h
                     /\ failed' = failed \cup {"indexopen"}
                     /\ logged' = {"Failed to create new connection to database"}
                     /\ pc' = IF OnIndexOpenError = "continue" THEN "index_loop"
                              ELSE "index_ret"
                     /\ UNCHANGED <<conns, defs>>
    /\ UNCHANGED <<inputs, panicking, version, rowsLeft, issued, data, attempted,
                   rowBudget>>

IndexQuery ==
    /\ pc = "index_defs"
    /\ defs /= <<>>
    /\ Issue(<<"index", con[2]>>)
    /\ \/ /\ logged' = {"Could not execute index query"}
          /\ failed' = failed \cup {"indexquery"}
          /\ IF OnIndexQueryError = "return"
               THEN defs' = <<>> /\ pc' = "index_loop"
               ELSE defs' = Tail(defs) /\ pc' = pc
          /\ UNCHANGED <<rowsLeft, rowBudget>>
          /\ Fault
       \/ \E n \in RowCounts :
            /\ rowBudget' = rowBudget - n
            /\ NoFault
            /\ rowsLeft' = n
            /\ IF n = 0 THEN defs' = Tail(defs) /\ pc' = pc
                        ELSE defs' = defs /\ pc' = "index_rows"
            /\ logged' = {}
            /\ UNCHANGED failed
    /\ UNCHANGED <<inputs, panicking, version, conns, todo, con, data, attempted>>

IndexRow ==
    /\ pc = "index_rows"
    /\ \E row \in IndexRows(con[2], Head(defs).schema) :
         LET dbName == GetDatabaseName(row)
             schemaName == GetSchemaName(row)
             tableName == GetTableName(row)
             indexName == GetIndexName(row)
         IN  AttachRow(Entity(indexName.name, "pg-index", dbName.name,
                              schemaName.name, tableName.name),
                       "PostgresqlIndexSample",
                       (IF dbName.err THEN {"Unable to get database name"} ELSE {})
                       \cup (IF schemaName.err THEN {"Unable to get schema name"} ELSE {})
                       \cup (IF tableName.err THEN {"Unable to get table name"} ELSE {})
                       \cup (IF indexName.err THEN {"Unable to get index name"} ELSE {}),
                       "Failed to get table entity for index",
                       "Failed to populate index entity with metrics",
                       "index_defs", "index_ret")
    /\ UNCHANGED <<inputs, version, conns, todo, con, issued, failed, attempted,
                   rowBudget>>

IndexDatabaseDone ==
    /\ pc = "index_defs"
    /\ defs = <<>>
    /\ pc' = "index_loop"
    /\ logged' = {}
    /\ UNCHANGED <<inputs, panicking, version, conns, loop, issued, data, failed,
                   attempted, rowBudget, faults>>

(***************************************************************************)
(* The pooling proxy: PopulateMetrics opens the connection, and            *)
(* PopulatePgBouncerMetrics runs on it.                                    *)
(***************************************************************************)
OpenPgBouncer ==
    /\ pc = "pgbouncer"
    /\ IF ~collectPgBouncer
         THEN /\ pc' = "main_ret"
              /\ logged' = {}
              /\ failed' = {}
              /\ NoFault
              /\ UNCHANGED <<conns, con, defs, attempted>>
         ELSE \E h \in {PgBouncerCon} \cup FailedHandles :
                /\ con' = h
                /\ attempted' = attempted \cup {"pgbouncer"}
                /\ IF h = PgBouncerCon
                     THEN /\ Opened(h)
                          /\ mainDefers' = Defer(h, mainDefers)
                          /\ defs' = generatePgBouncerDefinitions
                          /\ pc' = "pgbouncer_defs"
                          /\ logged' = {}
                          /\ failed' = {}
                          /\ NoFault
                          /\ UNCHANGED domDefers
                     ELSE /\ logged' = {"Error creating connection to pgbouncer database"}
                          /\ failed' = {"pgbounceropen"}
                          /\ Fault
                          /\ IF OnPgBouncerOpenError = "skip"
                               THEN /\ pc' = "main_ret"
                                    /\ UNCHANGED defs
                               ELSE /\ pc' = "pgbouncer_defs"
                                    /\ defs' = generatePgBouncerDefinitions
                          /\ UNCHANGED conns
    /\ UNCHANGED <<inputs, panicking, version, todo, rowsLeft, issued, data,
                   rowBudget>>

PgBouncerQuery ==
    /\ pc = "pgbouncer_defs"
    /\ defs /= <<>>
    /\ Issue(<<"pgbouncer", "-">>)
    /\ \/ /\ logged' = {"Could not execute index query"}
          /\ failed' = failed \cup {"pgbouncerquery"}
          /\ IF OnPgBouncerQueryError = "return"
               THEN defs' = <<>> /\ pc' = "main_ret"
               ELSE defs' = Tail(defs) /\ pc' = pc
          /\ UNCHANGED <<rowsLeft, rowBudget>>
          /\ Fault
       \/ \E n \in RowCounts :
            /\ rowBudget' = rowBudget - n
            /\ NoFault
            /\ rowsLeft' = n
            /\ IF n = 0 THEN defs' = Tail(defs) /\ pc' = pc
                        ELSE defs' = defs /\ pc' = "pgbouncer_rows"
            /\ logged' = {}
            /\ UNCHANGED failed
    /\ UNCHANGED <<inputs, panicking, version, conns, todo, con, data, attempted>>

PgBouncerRow ==
    /\ pc = "pgbouncer_rows"
    /\ \E row \in DatabaseRows :
         LET name == GetDatabaseName(row)
         IN  IF name.err /\ OnPgBouncerNameError = "continue"
               THEN /\ logged' = {"Unable to get database name"}
                    /\ NextRow("pgbouncer_defs")
                    /\ NoFault
                    /\ UNCHANGED <<panicking, data>>
               ELSE AttachRow(Entity(name.name, "pgbouncer", NA, NA, NA),
                              "PgBouncerSample",
                              IF name.err THEN {"Unable to get database name"} ELSE {},
                              "Failed to get database entity",
                              "Failed to populate pgbouncer entity with metrics",
                              "pgbouncer_defs", "main_ret")
    /\ UNCHANGED <<inputs, version, conns, todo, con, issued, failed, attempted,
                   rowBudget>>

PgBouncerDone ==
    /\ pc = "pgbouncer_defs"
    /\ defs = <<>>
    /\ pc' = "main_ret"
    /\ logged' = {}
    /\ UNCHANGED <<inputs, panicking, version, conns, loop, issued, data, failed,
                   attempted, rowBudget, faults>>

(***************************************************************************)
(* The run.                                                                *)
(***************************************************************************)
Next ==
    \/ OpenPrimary
    \/ CollectVersion
    \/ PopulateInstanceMetrics
    \/ InstanceQuery
    \/ InstanceDone
    \/ PopulateDatabaseMetrics
    \/ DatabaseQuery("database")
    \/ DatabaseRow("database")
    \/ DatabaseDone("database")
    \/ PopulateDatabaseLockMetrics
    \/ DatabaseQuery("lock")
    \/ DatabaseRow("lock")
    \/ DatabaseDone("lock")
    \/ PopulateTableMetrics
    \/ TableNextDatabase
    \/ TableLoopEnd
    \/ TableQuery
    \/ TableRow
    \/ TableDatabaseDone
    \/ DomainDeferred("table")
    \/ DomainReturn("table")
    \/ PopulateIndexMetrics
    \/ IndexNextDatabase
    \/ IndexLoopEnd
    \/ IndexQuery
    \/ IndexRow
    \/ IndexDatabaseDone
    \/ DomainDeferred("index")
    \/ DomainReturn("index")
    \/ OpenPgBouncer
    \/ PgBouncerQuery
    \/ PgBouncerRow
    \/ PgBouncerDone
    \/ MainDeferred
    \/ MainReturn

Spec == Init /\ [][Next]_vars


\* the version resolver on its own: PopulateMetrics up to the version, and
\* its return when there is none
NextVersion ==
    \/ OpenPrimary
    \/ CollectVersion
    \/ MainDeferred
    \/ MainReturn

SpecVersion == InitVersion /\ [][NextVersion]_vars

(***************************************************************************)
(* Properties.                                                             *)
(***************************************************************************)
VersionKey == <<"version", "-">>
LockKey == <<"lock", "-">>
LockWarning == "Crosstab function not available; database lock metric gathering not possible."
PerDatabaseCons == { h \in AllCons : h[1] \in {"table", "index"} }

\* the run is past the version resolution and has no version: the primary
\* connection or the version resolution failed
AbortedEarly == version = NoVersion /\ pc \notin {"open_primary", "collect_version"}

\* C1: when the primary connection cannot be opened or the version cannot be
\* resolved, the run aborts before any domain runs: it is returning or over, no
\* domain was entered, no query but the version query was issued, no
\* connection but the primary one was opened, and no entity or sample was
\* created.
C1_AbortBeforeAnyDomain ==
    AbortedEarly =>
        /\ pc \in {"main_ret", "done"}
        /\ attempted = {}
        /\ \A k \in QueryKeys \ {VersionKey} : issued[k] = 0
        /\ \A h \in AllCons \ {PrimaryCon} : openCount[h] = 0
        /\ entities = {InstanceEntity}
        /\ samples = EmptyBag

\* the version query returned an error and the run ended by returning
C1_Witness ==
    /\ pc = "done"
    /\ "version" \in failed
    /\ ~panicking
    /\ openCount[PrimaryCon] = 1
    /\ closeCount[PrimaryCon] = 1

\* C2: when the pgbouncer connection cannot be opened, from then on to the
\* end of the run no entity is a pgbouncer entity, and the entities and
\* samples the earlier domains created stay as they are.
C2_PgBouncerOpenFailureKeepsEntities ==
    [][ "pgbounceropen" \in failed' =>
            /\ entities' = entities
            /\ samples' = samples
            /\ \A e \in entities' : e.type /= "pgbouncer" ]_vars

\* the run ended after the pgbouncer connection failed, with an entity an
\* earlier domain created
C2_Witness ==
    /\ pc = "done"
    /\ "pgbounceropen" \in failed
    /\ collectPgBouncer
    /\ \E e \in entities : e.type \in {"pg-database", "pg-table", "pg-index"}
    /\ samples /= EmptyBag

\* C3: in PopulateDatabaseLockMetrics, without the tablefunc extension lock
\* collection is skipped with a warning, no lock query is issued then or
\* later and no entity or sample is created; with the extension the lock
\* definitions go through processDatabaseDefinitions as the database
\* definitions do: each one of the version is queried, and a row gives a
\* pg-database entity with a PostgresqlDatabaseSample.
C3_LockSkippedWithoutExtension ==
    [][ /\ (pc = "lock" /\ "noextension" \in failed') =>
               /\ pc' = "table"
               /\ LockWarning \in logged'
               /\ UNCHANGED <<issued, entities, samples>>
        /\ (pc = "lock" /\ pc' /= pc /\ "noextension" \notin failed') =>
               /\ pc' = "lock_defs"
               /\ defs' = generateLockDefinitions(databaseList, version)
        /\ (issued'[LockKey] /= issued[LockKey]) => pc = "lock_defs"
        /\ (pc = "lock_defs" /\ pc' = "table") =>
               issued[LockKey] = Len(generateLockDefinitions(databaseList, version))
        /\ (pc = "database_defs" /\ pc' \in {"lock", "table"}) =>
               issued[<<"database", "-">>]
                   = Len(generateDatabaseDefinitions(databaseList, version))
        /\ (pc \in {"lock_rows", "database_rows"} /\ ~panicking') =>
               \E e \in entities' :
                   /\ e.type = "pg-database"
                   /\ entities' = entities \cup {e}
                   /\ samples' = samples (+) SetToBag({<<e, "PostgresqlDatabaseSample">>})
      ]_vars

\* lock collection was skipped for want of the extension
C3_Witness ==
    /\ pc = "table"
    /\ collectDbLocks
    /\ "noextension" \in failed
    /\ LockWarning \in logged
    /\ issued[LockKey] = 0

\* C4: for a database whose schema list is empty, neither the table domain
\* nor the index domain opens a connection or issues a query.
C4_NoConnectionForEmptySchemaList ==
    \A d \in DOMAIN databaseList :
        Len(databaseList[d]) = 0 =>
            /\ openCount[TableCon(d)] = 0
            /\ openCount[IndexCon(d)] = 0
            /\ issued[<<"table", d>>] = 0
            /\ issued[<<"index", d>>] = 0

C6_OnePerDatabaseConnectionOpen ==
    Cardinality(openCons \cap PerDatabaseCons) <= 1

\* C7: in every domain a failed query skips its definition only: when the
\* loop over a definition list is over (and nothing panicked), every
\* definition of the list was executed.
C7_EveryDefinitionExecuted ==
    ~panicking =>
        /\ ("instance" \in attempted /\ pc /= "instance_defs") =>
               issued[<<"instance", "-">>] = Len(generateInstanceDefinitions(version))
        /\ ("database" \in attempted /\ pc \notin {"database_defs", "database_rows"}) =>
               issued[<<"database", "-">>]
                   = Len(generateDatabaseDefinitions(databaseList, version))
        /\ (issued[LockKey] > 0 /\ pc \notin {"lock_defs", "lock_rows"}) =>
               issued[LockKey] = Len(generateLockDefinitions(databaseList, version))
        /\ \A d \in DOMAIN databaseList :
               /\ ( /\ openCount[TableCon(d)] = 1
                    /\ ~(pc \in {"table_defs", "table_rows"} /\ con = TableCon(d)) ) =>
                      issued[<<"table", d>>] = Len(generateTableDefinitions(databaseList[d]))
               /\ ( /\ openCount[IndexCon(d)] = 1
                    /\ ~(pc \in {"index_defs", "index_rows"} /\ con = IndexCon(d)) ) =>
                      issued[<<"index", d>>] = Len(generateIndexDefinitions(databaseList[d]))
        /\ (openCount[PgBouncerCon] = 1 /\ pc \notin {"pgbouncer_defs", "pgbouncer_rows"}) =>
               issued[<<"pgbouncer", "-">>] = Len(generatePgBouncerDefinitions)

\* C8: once the version is resolved the run never crashes: no panic, whatever
\* the connection, query, row, entity and field-copy outcomes.
C8_NoCrashAfterVersion ==
    version /= NoVersion => ~panicking

\* C9: once the version is resolved, a run that is over has attempted the
\* index domain, and the pooling-proxy domain when its flag is set, whatever
\* failed in the domains before.
C9_SiblingDomainsStillRun ==
    (pc = "done" /\ version /= NoVersion) =>
        /\ "index" \in attempted
        /\ collectPgBouncer => "pgbouncer" \in attempted

\* C10: in the table domain a row without a table name still gives a pg-table
\* entity with an empty name and one more PostgresqlTableSample on it, the
\* omission is logged, and the loop goes on to the remaining rows.
C10_RowWithoutTableName ==
    [][ (pc = "table_rows" /\ "Unable to get table name" \in logged') =>
            /\ ~panicking'
            /\ pc' \in {"table_rows", "table_defs"}
            /\ rowsLeft' = rowsLeft - 1
            /\ \E e \in entities' :
                 /\ e.type = "pg-table"
                 /\ e.name = ""
                 /\ CopiesIn(<<e, "PostgresqlTableSample">>, samples')
                      = CopiesIn(<<e, "PostgresqlTableSample">>, samples) + 1 ]_vars

(***************************************************************************)
(* The version resolver.                                                   *)
(***************************************************************************)
MarkerTokens == {"Ubuntu", "Debian"}
HasMarker(vstr) == \E m \in MarkerTokens : Contains(vstr, m)

\* the string truncated at the start of its first marker's parenthetical (at
\* the marker itself when no parenthesis opens before it)
TruncatedBeforeMarker(vstr) ==
    LET at == CHOOSE i \in 1..Len(vstr) :
                  /\ vstr[i] \in MarkerTokens
                  /\ \A j \in 1..(i - 1) : vstr[j] \notin MarkerTokens
        start == IF at > 1 /\ vstr[at - 1] = " (" THEN at - 1 ELSE at
    IN  SubSeq(vstr, 1, start - 1)

\* the version query was answered with the outcome fixed in advance
VersionAnswered == versionAnswer /= <<>> /\ issued[VersionKey] = 1
\* the answer was one row whose string holds a vendor marker
MarkerAnswered ==
    /\ VersionAnswered
    /\ ~versionAnswer[1].err
    /\ Len(versionAnswer[1].rows) = 1
    /\ HasMarker(versionAnswer[1].rows[1])

\* what collectVersion did, as the run shows it
VersionOutcome ==
    IF panicking THEN Panic
    ELSE IF version /= NoVersion THEN Ok(version)
    ELSE Err

\* C11: for a version string that holds a vendor marker, collectVersion
\* gives what parsing the string truncated before the marker's parenthetical
\* gives, and does not crash.
C11_MarkerStringParsesAsTruncated ==
    MarkerAnswered =>
        VersionOutcome = ParseTolerant(TruncatedBeforeMarker(versionAnswer[1].rows[1]))

\* C20: for every outcome of the version query that is not a marker string,
\* collectVersion gives a version or an error and does not crash; with zero
\* rows it gives an error and no version.
C20_VersionOrErrorNeverCrash ==
    (VersionAnswered /\ ~MarkerAnswered) =>
        /\ VersionOutcome.kind /= "panic"
        /\ (~versionAnswer[1].err /\ Len(versionAnswer[1].rows) = 0) =>
               VersionOutcome = Err

(***************************************************************************)
(* Version ranges.                                                         *)
(***************************************************************************)
InstanceKey == <<"instance", "-">>
DatabaseKey == <<"database", "-">>
\* v lies in the half-open range [min, max) of the definition
InHalfOpenRange(def, v) == def.min <= v /\ (~def.hasMax \/ v < def.max)
\* the definitions of a catalogue whose range holds v, in catalogue order
InRangeOf(catalog, v) == SelectSeq(catalog, LAMBDA def : InHalfOpenRange(def, v))

C13_EmptySchemaListOnlySkipped ==
    (pc = "table_ret" /\ ~panicking /\ failed = {}) =>
        \A d \in DOMAIN databaseList :
            Len(databaseList[d]) >= 1 =>
                /\ openCount[TableCon(d)] = 1
                /\ issued[<<"table", d>>] = Len(generateTableDefinitions(databaseList[d]))

\* what the domains log when pgIntegration.Entity returns an error
EntityFailureMessages ==
    { "Failed to get database entity", "Failed to get table entity",
      "Failed to get table entity for index" }
\* what they log when a record lacks an identity field
IdentityFailureMessages ==
    { "Unable to get database name", "Unable to get schema name",
      "Unable to get table name", "Unable to get index name" }
RowPcs == {"database_rows", "lock_rows", "table_rows", "index_rows", "pgbouncer_rows"}
DefsPcs == {"database_defs", "lock_defs", "table_defs", "index_defs", "pgbouncer_defs"}

\* C14: a step in which the entity of a record cannot be resolved or created
\* reports it, attaches no sample, does not crash and goes on to the next
\* row or definition.
C14_EntityFailureIsRecordLocal ==
    [][ (pc \in RowPcs /\ logged' \cap EntityFailureMessages /= {}) =>
            /\ ~panicking'
            /\ samples' = samples
            /\ rowsLeft' = rowsLeft - 1
            /\ pc' \in RowPcs \cup DefsPcs ]_vars

\* C15: a step that processes a record lacking an identity field, and does
\* not crash on its entity, attaches one more sample to an entity resolved
\* with the empty string in the place of the missing field.
C15_MissingIdentityStillProcessed ==
    [][ ( /\ pc \in RowPcs
          /\ logged' \cap IdentityFailureMessages /= {}
          /\ ~panicking' ) =>
            \E e \in entities' :
                /\ "" \in {e.name, e.database, e.schema, e.table}
                /\ \E sampleName \in { sm[2] : sm \in BagToSet(samples') } :
                     CopiesIn(<<e, sampleName>>, samples')
                        = CopiesIn(<<e, sampleName>>, samples) + 1 ]_vars

(***************************************************************************)
(* Samples, version gating and the release of connections.                 *)
(***************************************************************************)
InstanceSample == <<InstanceEntity, "PostgresqlInstanceSample">>
\* the rows the server has returned so far
RowsReturned == MaxRows - rowBudget

\* C16: when the instance domain is over, the instance entity holds as many
\* PostgresqlInstanceSample samples as instance definitions returned a row:
\* none when no query returned a row, at least one when one did, and never
\* more than rows were returned.
C16_InstanceSamplePerAnsweredQuery ==
    pc = "database" =>
        /\ (RowsReturned = 0) => CopiesIn(InstanceSample, samples) = 0
        /\ (RowsReturned >= 1) => CopiesIn(InstanceSample, samples) >= 1
        /\ CopiesIn(InstanceSample, samples) <= RowsReturned

\* C17: every table or index query a run issues is the query of a
\* definition whose version range holds the resolved version.
C17_TableAndIndexVersionGated ==
    [][ \A d \in DatabaseNames :
            (\/ issued'[<<"table", d>>] /= issued[<<"table", d>>]
             \/ issued'[<<"index", d>>] /= issued[<<"index", d>>]) =>
                InHalfOpenRange(Head(defs), version) ]_vars

\* C18: every deferred Close is a Close of a connection that was opened:
\* none is scheduled for the result of a failed NewConnection, and the
\* handle of a failed open is never dereferenced.
C18_CloseOnlyOnOpenedHandles ==
    /\ \A i \in 1..Len(domDefers) : domDefers[i] \in AllCons
    /\ \A i \in 1..Len(mainDefers) : mainDefers[i] \in AllCons
    /\ (panicking /\ pc \in {"table_ret", "index_ret"}) => con \notin FailedHandles

\* C19: when PopulateMetrics is over, by return or by panic, every
\* connection that was opened was opened once and closed once; and a query
\* is only ever issued on a connection that is open.
C19_EveryConnectionClosedOnce ==
    [][ /\ (pc' = "done") =>
               \A h \in AllCons :
                   /\ openCount'[h] <= 1
                   /\ closeCount'[h] = openCount'[h]
                   /\ h \notin openCons'
        /\ (issued' /= issued) => (con \in openCons /\ con \in openCons')
        /\ \A h \in AllCons : closeCount'[h] <= openCount'[h] ]_vars

\* the run is over having opened and closed the primary connection, a table
\* and an index connection and, the connection variable reassigned, the
\* pgbouncer connection
C19_Witness ==
    /\ pc = "done"
    /\ \A h \in {PrimaryCon, PgBouncerCon, TableCon("d1"), IndexCon("d1")} :
         openCount[h] = 1 /\ closeCount[h] = 1
    /\ openCons = {}


=============================================================================
